---- MODULE Spec2Model ----
(***************************************************************************)
(* RFID warehouse operations monitor (src/main.py, class RFIDMonitorGUI).  *)
(*                                                                         *)
(* The model has three parts:                                              *)
(*   - the identifier allocator (load_state, save_state,                   *)
(*     get_next_available_id), stepped statement by statement so that      *)
(*     callers on different threads interleave as Python threads do;       *)
(*   - the TCP server: run_server's accept loop, one handle_client thread  *)
(*     per accepted connection, process_message, restart_server;           *)
(*   - the observer loop update_gui_loop draining operations_queue into    *)
(*     the CSV log.                                                        *)
(***************************************************************************)
EXTENDS Naturals, Sequences, FiniteSets, TLC

(***************************************************************************)
(* Bounds of the model.                                                    *)
(***************************************************************************)
\* allocator callers (threads that may be inside get_next_available_id)
NumCallers == 2
\* calls of get_next_available_id made in one run, over all callers
MaxCalls == 3
MaxReloads == 1
\* gui_state.json seen by load_state: next_id in 1..MaxSeedNext
MaxSeedNext == 2
\* gui_state.json seen by load_state: used_ids a subset of 1..MaxSeedId
MaxSeedId == 4
\* the same, for the runs with concurrent callers
ConcSeedId == 2

\* connections accepted in one run
NumSessions == 2
\* frames delivered to the server in one run, over all connections
MaxFrames == 2
\* times the operator confirms "Restart Server" in one run
MaxRestarts == 1
\* frames delivered in one run with a restart
MaxRestartFrames == 1

\* width of the identifier string: str(current_id).zfill(8)
IdWidth == 8

Callers == 1..NumCallers
Sessions == 1..NumSessions
\* run_server threads: the one started by __init__ and one per restart
Servers == 1..(MaxRestarts + 1)
\* remote addresses (client_address[0])
IPs == {"10.0.0.1", "10.0.0.2"}

VARIABLES
    \* ---- identifier state (self.next_id, self.used_ids) and its snapshot
    next_id,        \* self.next_id
    used_ids,       \* self.used_ids
    saved,          \* contents of gui_state.json: [next_id, used_ids]
    \* ---- callers of get_next_available_id
    apc,            \* apc[t]: position of caller t inside get_next_available_id
    current_id,     \* current_id[t]: the local current_id of caller t
    tmp,            \* tmp[t]: value of self.next_id loaded by a pending "+= 1" (0: none)
    callPre,        \* callPre[t]: next_id and used_ids when caller t entered
    calls,          \* number of calls started so far
    persisted,      \* persisted[t]: outcome of the save_state call of caller t
    reloads,        \* times the program was started again from gui_state.json
    returned,       \* history of the returned identifiers, in return order
    \* ---- server
    running,          \* self.running
    server_socket,    \* self.server_socket: 0 (None) or the socket made by run_server thread k
    closed_sockets,   \* listening sockets that have been closed
    lpc,              \* lpc[k]: position of run_server thread k
    lsock,            \* lsock[k]: the socket thread k's accept() call is blocked on
    restart_pending,  \* root.after(2000, restart_server_delayed) timers not yet fired
    restarts,         \* restarts confirmed so far
    exited,           \* on_closing has run: the window is destroyed and the process ends
    clients,          \* self.clients: remote address -> record (a partial function)
    device_stats,     \* self.device_stats: remote address -> counters (defaultdict)
    operations_queue, \* self.operations_queue
    csv_log,          \* rows appended to rfid_operations_log.csv
    acked,            \* acked[ip]: RFID_LOG frames from ip that process_message answered ACK_LOGGED
    \* ---- handle_client threads and their devices
    spc,              \* spc[s]: position of handle_client thread s
    addr,             \* addr[s]: client_ip of connection s
    msg,              \* msg[s]: the frame received on connection s in this iteration
    sent,             \* sent[s]: lines sent to the device since msg[s] was received
    emitted,          \* emitted[s]: events put on the queue since msg[s] was received
    ended_by,         \* ended_by[s]: why thread s left its loop: "closed" (end of stream or
                      \* socket error), "stopped" (running is False), "KeyError"
    tag8,             \* tag8[s]: block 8 of the tag at the device when it sent msg[s]
    nlines,           \* nlines[s]: newline-terminated frames that ended in the read of msg[s]
    stat_tmp,         \* stat_tmp[s]: counter value loaded by a pending "+= 1" of thread s
    frames            \* frames delivered so far

allocVars ==
    <<next_id, used_ids, saved, apc, current_id, tmp, callPre, calls, persisted, reloads, returned>>

acceptVars ==
    <<running, server_socket, closed_sockets, lpc, lsock, restart_pending, restarts, exited>>

sessionVars == <<spc, addr, msg, sent, emitted, ended_by, tag8, nlines, frames, stat_tmp>>

sharedVars == <<clients, device_stats, operations_queue, csv_log, acked>>

serverVars == <<acceptVars, sessionVars, sharedVars>>

vars == <<allocVars, serverVars>>

(***************************************************************************)
(* str(n).zfill(8): the decimal digits of n, left-padded with zeros to     *)
(* eight characters (longer numbers are not truncated).  An identifier     *)
(* string is modelled as its sequence of digits.                           *)
(***************************************************************************)
RECURSIVE Str(_)
Str(n) == IF n < 10 THEN <<n>> ELSE Append(Str(n \div 10), n % 10)

RECURSIVE Zfill(_, _)
Zfill(s, width) == IF Len(s) >= width THEN s ELSE Zfill(<<0>> \o s, width)

FormatId(n) == Zfill(Str(n), IdWidth)

(***************************************************************************)
(* load_state: the state after construction.  gui_state.json may be absent *)
(* (next_id = 1, used_ids = {}) or hold any next_id and any used_ids, gaps *)
(* included.                                                               *)
(***************************************************************************)
\* list(self.used_ids): the elements of the set, here in ascending order
\* (the order Python gives is immaterial: load_state makes a set of them)
RECURSIVE ListOf(_)
ListOf(S) ==
    IF S = {} THEN <<>>
    ELSE LET m == CHOOSE x \in S : \A y \in S : x <= y
         IN  <<m>> \o ListOf(S \ {m})

\* set(data.get("used_ids", []))
SetOf(list) == {list[i] : i \in 1..Len(list)}

\* the data dictionary save_state dumps (device_stats and timestamp are left out)
Snapshot(n, used) == [next_id |-> n, used_ids |-> ListOf(used)]

\* the file holds some snapshot; next_id and used_ids are read from it
LoadState(maxId) ==
    \E n \in 1..MaxSeedNext, used \in SUBSET (1..maxId) :
        /\ saved = Snapshot(n, used)
        /\ next_id = saved.next_id
        /\ used_ids = SetOf(saved.used_ids)

NoPre == [next_id |-> 0, used_ids |-> {}]

(***************************************************************************)
(* Frames.  A received line is split on "|" into a command token and       *)
(* parts; a part "KEY:value" is modelled as the pair of its key and value. *)
(***************************************************************************)
Field(k, v) == [key |-> k, val |-> v]

Frame(c, fs) == [command |-> c, fields |-> fs]

\* data.decode('utf-8').strip() of a line holding only white space
BlankFrame == Frame("", <<>>)

NoFrame == Frame("<none>", <<>>)

\* the lines the devices of the model send
DeviceFrames ==
    { BlankFrame,
      Frame("READER_WRITER_READY", <<>>),
      Frame("HEARTBEAT", <<>>),
      Frame("RFID_DETECTED", <<Field("UID", "04A1")>>),
      Frame("RFID_DETECTED", <<>>),
      Frame("RFID_LOG", <<Field("UID", "04A1"), Field("ACTION", "WRITE"),
                          Field("BLOCK8", "00000007"), Field("BLOCK9", "WAREHOUSE_IN"),
                          Field("SEQ", "1")>>),
      Frame("RFID_LOG", <<Field("UID", "04A1"), Field("BLOCK9", "X_WAREHOUSE_OUT")>>),
      Frame("RFID_LOG", <<Field("UID", "04B2"), Field("ACTION", "MOVE"),
                          Field("BLOCK9", "SHELF")>>),
      Frame("RFID_LOG", <<>>),
      Frame("WRITE_FAILED", <<>>),
      Frame("STATUS", <<>>) }

\* what one recv(1024) returns: the lines in it (the text is the lines joined
\* by "\n") and the number of "\n" in it, one after every frame that ends in it
Read(lines, newlines) == [lines |-> lines, newlines |-> newlines]

\* parts of the text first "\n" second, as message.split('|') cuts it: the
\* line break is not a separator, it stays inside the part that spans it
Join(first, second) ==
    IF first.fields = <<>>
    THEN Frame(first.command \o "\n" \o second.command, second.fields)
    ELSE LET n == Len(first.fields)
             last == first.fields[n]
         IN  Frame(first.command,
                   SubSeq(first.fields, 1, n - 1)
                       \o <<Field(last.key, last.val \o "\n" \o second.command)>>
                       \o second.fields)

\* message = data.decode('utf-8').strip(): the whole read is one message
RECURSIVE Decode(_)
Decode(lines) ==
    IF Len(lines) = 1 THEN lines[1]
    ELSE Join(lines[1], Decode(Tail(lines)))

\* the reads in which every line arrives alone and whole
WholeReads(lines) == {Read(<<line>>, 1) : line \in lines}

\* reads in which the stream is cut elsewhere: two frames in one read, and
\* one frame over two reads
SplitReads ==
    { Read(<<Frame("HEARTBEAT", <<>>), Frame("HEARTBEAT", <<>>)>>, 2),
      Read(<<Frame("HEART", <<>>)>>, 0),
      Read(<<Frame("BEAT", <<>>)>>, 1) }

\* block 8 of the tag a device holds when it reports RFID_DETECTED
TagBlock8Values == {"EMPTY", "00000007"}

\* `sub in text` for the strings of the model: text = pre + sub + post
Affixes == {"", "X_"}

Contains(sub, text) == \E pre \in Affixes, post \in Affixes : text = pre \o sub \o post

\* the for-loop over parts[1:]: the last part with the key wins, "" if none
FieldValue(message, key) ==
    LET hits == {i \in 1..Len(message.fields) : message.fields[i].key = key}
    IN  IF hits = {} THEN ""
        ELSE message.fields[CHOOSE i \in hits : \A j \in hits : j <= i].val

(***************************************************************************)
(* Records of the shared tables.                                           *)
(***************************************************************************)
\* the record handle_client stores in self.clients (the time stamps are left out)
NewClient(s) == [socket |-> s, type |-> "Unknown", status |-> "Connected"]

\* defaultdict(lambda: {'in_count': 0, 'out_count': 0, 'total': 0})
ZeroStats == [in_count |-> 0, out_count |-> 0, total |-> 0]

\* self.clients = {}
NoClients == [ip \in {} |-> NewClient(0)]

\* self.clients[ip] = record
PutClient(cl, ip, record) == [a \in DOMAIN cl \cup {ip} |-> IF a = ip THEN record ELSE cl[a]]

\* del self.clients[ip]
DelClient(cl, ip) == [a \in DOMAIN cl \ {ip} |-> cl[a]]

Event(kind, data) == [kind |-> kind, data |-> data]

\* the operation_data dictionary of an RFID_LOG frame (the time stamp is left out)
OperationData(client_ip, card_uid, operation_type, block8_data, block9_data) ==
    [device |-> client_ip, uid |-> card_uid, operation |-> operation_type,
     block8 |-> block8_data, block9 |-> block9_data, status |-> "Success"]

InitServer ==
    /\ running = FALSE
    /\ server_socket = 0
    /\ closed_sockets = {}
    /\ lpc = [k \in Servers |-> IF k = 1 THEN "init" ELSE "free"]
    /\ lsock = [k \in Servers |-> 0]
    /\ restart_pending = 0
    /\ restarts = 0
    /\ exited = FALSE
    /\ clients = NoClients
    /\ device_stats = [ip \in IPs |-> ZeroStats]
    /\ operations_queue = <<>>
    /\ csv_log = <<>>
    /\ acked = [ip \in IPs |-> 0]
    /\ spc = [s \in Sessions |-> "free"]
    /\ addr = [s \in Sessions |-> ""]
    /\ msg = [s \in Sessions |-> NoFrame]
    /\ sent = [s \in Sessions |-> <<>>]
    /\ emitted = [s \in Sessions |-> <<>>]
    /\ ended_by = [s \in Sessions |-> "running"]
    /\ tag8 = [s \in Sessions |-> ""]
    /\ nlines = [s \in Sessions |-> 0]
    /\ stat_tmp = [s \in Sessions |-> 0]
    /\ frames = 0

(***************************************************************************)
(* process_message(message, client_ip, client_socket): the reply, the      *)
(* tables as the call leaves them, and the events it puts on the queue.    *)
(* A KeyError on self.clients[client_ip] is caught by the method's own     *)
(* except clause: what was assigned before it stays assigned.              *)
(***************************************************************************)
Outcome(response, cl, ds, puts) ==
    [response |-> response, clients |-> cl, device_stats |-> ds, puts |-> puts]

\* ProcessReady with another classification tag
ProcessReadyRetagged(client_ip) ==
    IF client_ip \in DOMAIN clients
    THEN Outcome("ACK_READER_WRITER_READY",
                 [clients EXCEPT ![client_ip].type = "RFID Writer",
                                 ![client_ip].status = "Ready"],
                 device_stats, <<>>)
    ELSE Outcome("ERROR_PROCESSING", clients, device_stats, <<>>)

\* command == "READER_WRITER_READY"
ProcessReady(client_ip) ==
    IF client_ip \in DOMAIN clients
    THEN Outcome("ACK_READER_WRITER_READY",
                 [clients EXCEPT ![client_ip].type = "RFID Reader",
                                 ![client_ip].status = "Ready"],
                 device_stats, <<>>)
    ELSE Outcome("ERROR_PROCESSING", clients, device_stats, <<>>)

\* command == "RFID_LOG"
ProcessLog(message, client_ip) ==
    LET card_uid == FieldValue(message, "UID")
        action == FieldValue(message, "ACTION")
        block8_data == FieldValue(message, "BLOCK8")
        block9_data == FieldValue(message, "BLOCK9")
        isIn == Contains("WAREHOUSE_IN", block9_data)
        isOut == ~isIn /\ Contains("WAREHOUSE_OUT", block9_data)
        operation_type == IF isIn THEN "IN"
                          ELSE IF isOut THEN "OUT"
                          ELSE IF action # "" THEN action ELSE "UNKNOWN"
        old == device_stats[client_ip]
        stats == [in_count |-> IF isIn THEN old.in_count + 1 ELSE old.in_count,
                  out_count |-> IF isOut THEN old.out_count + 1 ELSE old.out_count,
                  total |-> old.total + 1]
        ds == [device_stats EXCEPT ![client_ip] = stats]
    IN  IF client_ip \in DOMAIN clients
        THEN Outcome("ACK_LOGGED",
                     [clients EXCEPT ![client_ip].type = "RFID " \o operation_type \o " Reader"],
                     ds,
                     <<Event("rfid_operation",
                             OperationData(client_ip, card_uid, operation_type,
                                           block8_data, block9_data))>>)
        ELSE Outcome("ERROR_PROCESSING", clients, ds, <<>>)

\* ProcessMessage with the last two branches taken for one another
ProcessMessageSwapped(message, client_ip) ==
    IF message.command = "READER_WRITER_READY" THEN ProcessReady(client_ip)
    ELSE IF message.command = "RFID_LOG" THEN ProcessLog(message, client_ip)
    ELSE IF message.command = "HEARTBEAT"
         THEN Outcome("ERROR_UNKNOWN_COMMAND", clients, device_stats, <<>>)
    ELSE Outcome("HEARTBEAT_ACK", clients, device_stats, <<>>)

ProcessMessage(message, client_ip) ==
    IF message.command = "READER_WRITER_READY" THEN ProcessReady(client_ip)
    ELSE IF message.command = "RFID_LOG" THEN ProcessLog(message, client_ip)
    ELSE IF message.command = "HEARTBEAT"
         THEN Outcome("HEARTBEAT_ACK", clients, device_stats, <<>>)
    ELSE Outcome("ERROR_UNKNOWN_COMMAND", clients, device_stats, <<>>)

InitCallers ==
    /\ apc = [t \in Callers |-> "idle"]
    /\ current_id = [t \in Callers |-> 0]
    /\ tmp = [t \in Callers |-> 0]
    /\ callPre = [t \in Callers |-> NoPre]
    /\ calls = 0
    /\ persisted = [t \in Callers |-> "none"]
    /\ reloads = 0
    /\ returned = <<>>

(***************************************************************************)
(* save_state: rewrites gui_state.json with the current state; any         *)
(* exception is swallowed, leaving the file as it was.                     *)
(***************************************************************************)
\* SaveState with "used_ids" left out of the data dictionary
SaveStateWithoutUsedIds == saved' = Snapshot(next_id, {})

\* the file is written
SaveState == saved' = Snapshot(next_id, used_ids)

\* open() or json.dump() raises: the except clause reports it, the file stays
SaveStateError == UNCHANGED saved

(***************************************************************************)
(* get_next_available_id, one statement (one shared read or write) per     *)
(* step.  No lock is taken anywhere in the method.                         *)
(***************************************************************************)
\* entry of the method
Enter(t) ==
    /\ apc[t] = "idle"
    /\ calls < MaxCalls
    /\ calls' = calls + 1
    /\ callPre' = [callPre EXCEPT ![t] = [next_id |-> next_id, used_ids |-> used_ids]]
    /\ apc' = [apc EXCEPT ![t] = "scan"]
    /\ UNCHANGED <<next_id, used_ids, saved, current_id, tmp, persisted, reloads, returned>>

\* ScanTest without the membership test: the candidate is taken unscanned
ScanTestNoSkip(t) ==
    /\ apc[t] = "scan"
    /\ apc' = [apc EXCEPT ![t] = "take"]
    /\ UNCHANGED <<next_id, used_ids, saved, current_id, tmp, callPre, persisted, calls, reloads, returned>>

\* while self.next_id in self.used_ids:
ScanTest(t) ==
    /\ apc[t] = "scan"
    /\ apc' = [apc EXCEPT ![t] = IF next_id \in used_ids THEN "skip_load" ELSE "take"]
    /\ UNCHANGED <<next_id, used_ids, saved, current_id, tmp, callPre, persisted, calls, reloads, returned>>

\*     self.next_id += 1      (the read)
SkipLoad(t) ==
    /\ apc[t] = "skip_load"
    /\ tmp' = [tmp EXCEPT ![t] = next_id]
    /\ apc' = [apc EXCEPT ![t] = "skip_store"]
    /\ UNCHANGED <<next_id, used_ids, saved, current_id, callPre, persisted, calls, reloads, returned>>

\*     self.next_id += 1      (the write)
SkipStore(t) ==
    /\ apc[t] = "skip_store"
    /\ next_id' = tmp[t] + 1
    /\ tmp' = [tmp EXCEPT ![t] = 0]
    /\ apc' = [apc EXCEPT ![t] = "scan"]
    /\ UNCHANGED <<used_ids, saved, current_id, callPre, persisted, calls, reloads, returned>>

\* current_id = self.next_id
Take(t) ==
    /\ apc[t] = "take"
    /\ current_id' = [current_id EXCEPT ![t] = next_id]
    /\ apc' = [apc EXCEPT ![t] = "add"]
    /\ UNCHANGED <<next_id, used_ids, saved, tmp, callPre, persisted, calls, reloads, returned>>

\* self.used_ids.add(current_id)
Reserve(t) ==
    /\ apc[t] = "add"
    /\ used_ids' = used_ids \cup {current_id[t]}
    /\ apc' = [apc EXCEPT ![t] = "adv_load"]
    /\ UNCHANGED <<next_id, saved, current_id, tmp, callPre, persisted, calls, reloads, returned>>

\* self.next_id += 1          (the read)
AdvanceLoad(t) ==
    /\ apc[t] = "adv_load"
    /\ tmp' = [tmp EXCEPT ![t] = next_id]
    /\ apc' = [apc EXCEPT ![t] = "adv_store"]
    /\ UNCHANGED <<next_id, used_ids, saved, current_id, callPre, persisted, calls, reloads, returned>>

\* self.next_id += 1          (the write)
AdvanceStore(t) ==
    /\ apc[t] = "adv_store"
    /\ next_id' = tmp[t] + 1
    /\ tmp' = [tmp EXCEPT ![t] = 0]
    /\ apc' = [apc EXCEPT ![t] = "save"]
    /\ UNCHANGED <<used_ids, saved, current_id, callPre, persisted, calls, reloads, returned>>

\* Persist with a save_state that lets the exception through: the call is
\* left without a return value
PersistRaises(t) ==
    /\ apc[t] = "save"
    /\ \/ /\ SaveState
          /\ persisted' = [persisted EXCEPT ![t] = "ok"]
          /\ apc' = [apc EXCEPT ![t] = "return"]
          /\ UNCHANGED <<current_id, callPre>>
       \/ /\ SaveStateError
          /\ persisted' = [persisted EXCEPT ![t] = "none"]
          /\ apc' = [apc EXCEPT ![t] = "idle"]
          /\ current_id' = [current_id EXCEPT ![t] = 0]
          /\ callPre' = [callPre EXCEPT ![t] = NoPre]
    /\ UNCHANGED <<next_id, used_ids, tmp, calls, reloads, returned>>

\* self.save_state()
Persist(t) ==
    /\ apc[t] = "save"
    /\ \/ SaveState /\ persisted' = [persisted EXCEPT ![t] = "ok"]
       \/ SaveStateError /\ persisted' = [persisted EXCEPT ![t] = "failed"]
    /\ apc' = [apc EXCEPT ![t] = "return"]
    /\ UNCHANGED <<next_id, used_ids, current_id, tmp, callPre, calls, reloads, returned>>

\* return str(current_id).zfill(8)
Return(t) ==
    /\ apc[t] = "return"
    /\ returned' = Append(returned, [id |-> FormatId(current_id[t]),
                                     pre |-> callPre[t],
                                     persisted |-> persisted[t],
                                     reloads |-> reloads])
    /\ persisted' = [persisted EXCEPT ![t] = "none"]
    /\ current_id' = [current_id EXCEPT ![t] = 0]
    /\ callPre' = [callPre EXCEPT ![t] = NoPre]
    /\ apc' = [apc EXCEPT ![t] = "idle"]
    /\ UNCHANGED <<next_id, used_ids, saved, tmp, calls, reloads>>

GetNextAvailableIdStep(t) ==
    \/ ScanTest(t)
    \/ SkipLoad(t)
    \/ SkipStore(t)
    \/ Take(t)
    \/ Reserve(t)
    \/ AdvanceLoad(t)
    \/ AdvanceStore(t)
    \/ Persist(t)
    \/ Return(t)

\* a call made while no other caller is inside the method
SequentialEnter(t) ==
    /\ \A u \in Callers : apc[u] = "idle"
    /\ Enter(t)

\* the program is started again while no call is in progress: __init__ sets
\* next_id = 1 and used_ids = set(), then load_state reads gui_state.json
\* (the file exists: Init has it)
Reload ==
    /\ reloads < MaxReloads
    /\ \A t \in Callers : apc[t] = "idle"
    /\ reloads' = reloads + 1
    /\ next_id' = saved.next_id
    /\ used_ids' = SetOf(saved.used_ids)
    /\ UNCHANGED <<saved, apc, current_id, tmp, callPre, calls, persisted, returned>>

(***************************************************************************)
(* SpecSeq: get_next_available_id called sequentially (one call returns    *)
(* before the next begins).  SpecConc: called from several threads.        *)
(* SpecReload: SpecSeq with the program started again between calls.       *)
(***************************************************************************)
InitSeq ==
    /\ LoadState(MaxSeedId)
    /\ InitCallers
    /\ InitServer

InitConc ==
    /\ LoadState(ConcSeedId)
    /\ InitCallers
    /\ InitServer

NextSeq ==
    /\ \E t \in Callers : SequentialEnter(t) \/ GetNextAvailableIdStep(t)
    /\ UNCHANGED serverVars

NextConc ==
    /\ \E t \in Callers : Enter(t) \/ GetNextAvailableIdStep(t)
    /\ UNCHANGED serverVars

NextReload ==
    /\ \/ \E t \in Callers : SequentialEnter(t) \/ GetNextAvailableIdStep(t)
       \/ Reload
    /\ UNCHANGED serverVars

SpecSeq == InitSeq /\ [][NextSeq]_vars

SpecReload == InitSeq /\ [][NextReload]_vars

SpecConc == InitConc /\ [][NextConc]_vars

(***************************************************************************)
(* run_server: one thread per start_server_thread().                       *)
(***************************************************************************)
\* socket(), bind(), listen(), self.running = True, put('server_status', ...)
RunServerListen(k) ==
    /\ ~exited
    /\ lpc[k] = "init"
    /\ server_socket' = k
    /\ running' = TRUE
    /\ operations_queue' = Append(operations_queue, Event("server_status", "running"))
    /\ lpc' = [lpc EXCEPT ![k] = "loop"]
    /\ UNCHANGED <<closed_sockets, lsock, restart_pending, restarts, exited>>
    /\ UNCHANGED <<clients, device_stats, csv_log, acked, sessionVars, allocVars>>

\* bind() raises (the port is taken): the outer except reports it and the thread ends
RunServerBindError(k) ==
    /\ ~exited
    /\ lpc[k] = "init"
    /\ server_socket' = k
    /\ closed_sockets' = closed_sockets \cup {k}
    /\ operations_queue' = Append(operations_queue, Event("server_status", "error"))
    /\ lpc' = [lpc EXCEPT ![k] = "done"]
    /\ UNCHANGED <<running, lsock, restart_pending, restarts, exited>>
    /\ UNCHANGED <<clients, device_stats, csv_log, acked, sessionVars, allocVars>>

\* while self.running:  ...  self.server_socket.accept()   (the call begins)
AcceptLoopTest(k) ==
    /\ ~exited
    /\ lpc[k] = "loop"
    /\ IF running
       THEN /\ lpc' = [lpc EXCEPT ![k] = "accept"]
            /\ lsock' = [lsock EXCEPT ![k] = server_socket]
       ELSE /\ lpc' = [lpc EXCEPT ![k] = "done"]
            /\ lsock' = [lsock EXCEPT ![k] = 0]
    /\ UNCHANGED <<running, server_socket, closed_sockets, restart_pending, restarts, exited>>
    /\ UNCHANGED <<sharedVars, sessionVars, allocVars>>

\* accept() returns a connection from ip; a handle_client thread is started for it
Accept(k, s, ip) ==
    /\ ~exited
    /\ lpc[k] = "accept"
    /\ lsock[k] \notin closed_sockets
    /\ spc[s] = "free"
    /\ \A u \in Sessions : u < s => spc[u] # "free"
    /\ spc' = [spc EXCEPT ![s] = "start"]
    /\ addr' = [addr EXCEPT ![s] = ip]
    /\ lpc' = [lpc EXCEPT ![k] = "loop"]
    /\ UNCHANGED <<running, server_socket, closed_sockets, lsock, restart_pending, restarts, exited>>
    /\ UNCHANGED <<msg, sent, emitted, ended_by, tag8, nlines, frames, stat_tmp>>
    /\ UNCHANGED <<sharedVars, allocVars>>

\* accept() raises because its socket was closed: the inner except loops on
AcceptError(k) ==
    /\ ~exited
    /\ lpc[k] = "accept"
    /\ lsock[k] \in closed_sockets
    /\ lpc' = [lpc EXCEPT ![k] = "loop"]
    /\ UNCHANGED <<running, server_socket, closed_sockets, lsock, restart_pending, restarts, exited>>
    /\ UNCHANGED <<sharedVars, sessionVars, allocVars>>

(***************************************************************************)
(* restart_server (the operator answers yes) and restart_server_delayed.   *)
(***************************************************************************)
RestartServer ==
    /\ ~exited
    /\ restarts < MaxRestarts
    /\ restarts' = restarts + 1
    /\ running' = FALSE
    /\ closed_sockets' = IF server_socket # 0 THEN closed_sockets \cup {server_socket}
                         ELSE closed_sockets
    /\ clients' = NoClients
    /\ restart_pending' = restart_pending + 1
    /\ UNCHANGED <<server_socket, lpc, lsock, exited>>
    /\ UNCHANGED <<device_stats, operations_queue, csv_log, acked, sessionVars, allocVars>>

RestartServerDelayed(k) ==
    /\ ~exited
    /\ restart_pending > 0
    /\ lpc[k] = "free"
    /\ \A j \in Servers : j < k => lpc[j] # "free"
    /\ restart_pending' = restart_pending - 1
    /\ lpc' = [lpc EXCEPT ![k] = "init"]
    /\ UNCHANGED <<running, server_socket, closed_sockets, lsock, restarts, exited>>
    /\ UNCHANGED <<sharedVars, sessionVars, allocVars>>

(***************************************************************************)
(* handle_client(client_socket, client_address): one thread per accepted   *)
(* connection.                                                             *)
(***************************************************************************)
\* self.clients[client_ip] = {...}; put(('client_connected', client_ip))
Register(s) ==
    /\ ~exited
    /\ spc[s] = "start"
    /\ clients' = PutClient(clients, addr[s], NewClient(s))
    /\ operations_queue' = Append(operations_queue, Event("client_connected", addr[s]))
    /\ spc' = [spc EXCEPT ![s] = "loop"]
    /\ UNCHANGED <<addr, msg, sent, emitted, ended_by, tag8, nlines, frames, stat_tmp>>
    /\ UNCHANGED <<device_stats, csv_log, acked, acceptVars, allocVars>>

\* the previous frame and what was done for it are over
ForgetFrame(s) ==
    /\ msg' = [msg EXCEPT ![s] = NoFrame]
    /\ tag8' = [tag8 EXCEPT ![s] = ""]
    /\ nlines' = [nlines EXCEPT ![s] = 0]
    /\ sent' = [sent EXCEPT ![s] = <<>>]
    /\ emitted' = [emitted EXCEPT ![s] = <<>>]

\* while self.running:   (the test; recv() is entered when it holds)
LoopTest(s) ==
    /\ ~exited
    /\ spc[s] = "loop"
    /\ IF running
       THEN /\ spc' = [spc EXCEPT ![s] = "recv"]
            /\ UNCHANGED ended_by
       ELSE /\ spc' = [spc EXCEPT ![s] = "finally"]
            /\ ended_by' = [ended_by EXCEPT ![s] = "stopped"]
    /\ ForgetFrame(s)
    /\ UNCHANGED <<addr, frames, stat_tmp>>
    /\ UNCHANGED <<sharedVars, acceptVars, allocVars>>

\* recv() returns a line; strip(); blank lines are skipped; the entry of
\* self.clients is stamped with last_activity (KeyError if it is gone, which
\* the try of handle_client turns into the end of the session)
Receive(s, message, block8) ==
    /\ ~exited
    /\ spc[s] = "recv"
    /\ frames' = frames + 1
    /\ msg' = [msg EXCEPT ![s] = message]
    /\ tag8' = [tag8 EXCEPT ![s] = block8]
    /\ UNCHANGED <<sent, emitted>>
    /\ IF message = BlankFrame
       THEN /\ spc' = [spc EXCEPT ![s] = "loop"]
            /\ UNCHANGED ended_by
       ELSE IF addr[s] \in DOMAIN clients
       THEN /\ spc' = [spc EXCEPT ![s] = "dispatch"]
            /\ UNCHANGED ended_by
       ELSE /\ spc' = [spc EXCEPT ![s] = "finally"]
            /\ ended_by' = [ended_by EXCEPT ![s] = "KeyError"]
    /\ UNCHANGED <<addr, stat_tmp>>
    /\ UNCHANGED <<sharedVars, acceptVars, allocVars>>

\* recv() returns b'': break
PeerClosed(s) ==
    /\ ~exited
    /\ spc[s] = "recv"
    /\ spc' = [spc EXCEPT ![s] = "finally"]
    /\ ended_by' = [ended_by EXCEPT ![s] = "closed"]
    /\ UNCHANGED <<addr, msg, sent, emitted, tag8, nlines, frames, stat_tmp>>
    /\ UNCHANGED <<sharedVars, acceptVars, allocVars>>

\* recv() raises (connection reset)
TransportError(s) ==
    /\ ~exited
    /\ spc[s] = "recv"
    /\ spc' = [spc EXCEPT ![s] = "finally"]
    /\ ended_by' = [ended_by EXCEPT ![s] = "closed"]
    /\ UNCHANGED <<addr, msg, sent, emitted, tag8, nlines, frames, stat_tmp>>
    /\ UNCHANGED <<sharedVars, acceptVars, allocVars>>

\* response = self.process_message(...); if response: client_socket.send(...)
Dispatch(s) ==
    /\ ~exited
    /\ spc[s] = "dispatch"
    /\ LET out == ProcessMessage(msg[s], addr[s])
       IN  /\ clients' = out.clients
           /\ device_stats' = out.device_stats
           /\ operations_queue' = operations_queue \o out.puts
           /\ emitted' = [emitted EXCEPT ![s] = @ \o out.puts]
           /\ \/ /\ sent' = [sent EXCEPT ![s] = Append(@, out.response)]
                 /\ acked' = IF out.response = "ACK_LOGGED"
                             THEN [acked EXCEPT ![addr[s]] = @ + 1] ELSE acked
                 /\ spc' = [spc EXCEPT ![s] = "loop"]
                 /\ UNCHANGED ended_by
              \/ \* send() raises: the peer is gone
                 /\ spc' = [spc EXCEPT ![s] = "finally"]
                 /\ ended_by' = [ended_by EXCEPT ![s] = "closed"]
                 /\ UNCHANGED <<sent, acked>>
    /\ UNCHANGED <<addr, msg, tag8, nlines, frames, stat_tmp>>
    /\ UNCHANGED <<csv_log, acceptVars, allocVars>>

(***************************************************************************)
(* The RFID_LOG branch of process_message statement by statement: each     *)
(* "+= 1" on a counter of self.device_stats[client_ip] is a read followed  *)
(* by a write, and other threads run in between.                           *)
(***************************************************************************)
\* "WAREHOUSE_IN" in block9_data
IsIn(message) == Contains("WAREHOUSE_IN", FieldValue(message, "BLOCK9"))

\* elif "WAREHOUSE_OUT" in block9_data
IsOut(message) == ~IsIn(message) /\ Contains("WAREHOUSE_OUT", FieldValue(message, "BLOCK9"))

\* operation_type as lines 276-282 set it
OperationType(message) ==
    IF IsIn(message) THEN "IN"
    ELSE IF IsOut(message) THEN "OUT"
    ELSE IF FieldValue(message, "ACTION") # "" THEN FieldValue(message, "ACTION")
    ELSE "UNKNOWN"

\* the parts are parsed and the direction is decided;
\* self.device_stats[client_ip]['in_count' or 'out_count'] += 1   (the read)
LogCountLoad(s) ==
    /\ ~exited
    /\ spc[s] = "dispatch"
    /\ msg[s].command = "RFID_LOG"
    /\ IF IsIn(msg[s])
       THEN /\ stat_tmp' = [stat_tmp EXCEPT ![s] = device_stats[addr[s]].in_count]
            /\ spc' = [spc EXCEPT ![s] = "count_store"]
       ELSE IF IsOut(msg[s])
       THEN /\ stat_tmp' = [stat_tmp EXCEPT ![s] = device_stats[addr[s]].out_count]
            /\ spc' = [spc EXCEPT ![s] = "count_store"]
       ELSE /\ spc' = [spc EXCEPT ![s] = "total_load"]
            /\ UNCHANGED stat_tmp
    /\ UNCHANGED <<addr, msg, sent, emitted, ended_by, tag8, nlines, frames>>
    /\ UNCHANGED <<sharedVars, acceptVars, allocVars>>

\* self.device_stats[client_ip]['in_count' or 'out_count'] += 1   (the write)
LogCountStore(s) ==
    /\ ~exited
    /\ spc[s] = "count_store"
    /\ device_stats' = IF IsIn(msg[s])
                       THEN [device_stats EXCEPT ![addr[s]].in_count = stat_tmp[s] + 1]
                       ELSE [device_stats EXCEPT ![addr[s]].out_count = stat_tmp[s] + 1]
    /\ stat_tmp' = [stat_tmp EXCEPT ![s] = 0]
    /\ spc' = [spc EXCEPT ![s] = "total_load"]
    /\ UNCHANGED <<addr, msg, sent, emitted, ended_by, tag8, nlines, frames>>
    /\ UNCHANGED <<clients, operations_queue, csv_log, acked, acceptVars, allocVars>>

\* self.device_stats[client_ip]['total'] += 1   (the read)
LogTotalLoad(s) ==
    /\ ~exited
    /\ spc[s] = "total_load"
    /\ stat_tmp' = [stat_tmp EXCEPT ![s] = device_stats[addr[s]].total]
    /\ spc' = [spc EXCEPT ![s] = "total_store"]
    /\ UNCHANGED <<addr, msg, sent, emitted, ended_by, tag8, nlines, frames>>
    /\ UNCHANGED <<sharedVars, acceptVars, allocVars>>

\* self.device_stats[client_ip]['total'] += 1   (the write)
LogTotalStore(s) ==
    /\ ~exited
    /\ spc[s] = "total_store"
    /\ device_stats' = [device_stats EXCEPT ![addr[s]].total = stat_tmp[s] + 1]
    /\ stat_tmp' = [stat_tmp EXCEPT ![s] = 0]
    /\ spc' = [spc EXCEPT ![s] = "record"]
    /\ UNCHANGED <<addr, msg, sent, emitted, ended_by, tag8, nlines, frames>>
    /\ UNCHANGED <<clients, operations_queue, csv_log, acked, acceptVars, allocVars>>

\* self.clients[client_ip]['type'] = ...; put(('rfid_operation', ...));
\* return "ACK_LOGGED" (ERROR_PROCESSING after a KeyError); the reply is sent
LogRecord(s) ==
    /\ ~exited
    /\ spc[s] = "record"
    /\ IF addr[s] \in DOMAIN clients
       THEN LET operation_type == OperationType(msg[s])
                put == Event("rfid_operation",
                             OperationData(addr[s], FieldValue(msg[s], "UID"), operation_type,
                                           FieldValue(msg[s], "BLOCK8"),
                                           FieldValue(msg[s], "BLOCK9")))
            IN  /\ clients' = [clients EXCEPT
                                  ![addr[s]].type = "RFID " \o operation_type \o " Reader"]
                /\ operations_queue' = Append(operations_queue, put)
                /\ emitted' = [emitted EXCEPT ![s] = Append(@, put)]
                /\ sent' = [sent EXCEPT ![s] = Append(@, "ACK_LOGGED")]
                /\ acked' = [acked EXCEPT ![addr[s]] = @ + 1]
       ELSE /\ sent' = [sent EXCEPT ![s] = Append(@, "ERROR_PROCESSING")]
            /\ UNCHANGED <<clients, operations_queue, emitted, acked>>
    /\ spc' = [spc EXCEPT ![s] = "loop"]
    /\ UNCHANGED <<addr, msg, ended_by, tag8, nlines, frames, stat_tmp>>
    /\ UNCHANGED <<device_stats, csv_log, acceptVars, allocVars>>

\* finally: client_socket.close(); del self.clients[client_ip] if present;
\* put(('client_disconnected', client_ip))
Teardown(s) ==
    /\ ~exited
    /\ spc[s] = "finally"
    /\ clients' = DelClient(clients, addr[s])
    /\ operations_queue' = Append(operations_queue, Event("client_disconnected", addr[s]))
    /\ spc' = [spc EXCEPT ![s] = "done"]
    /\ ForgetFrame(s)
    /\ UNCHANGED <<addr, ended_by, frames, stat_tmp>>
    /\ UNCHANGED <<device_stats, csv_log, acked, acceptVars, allocVars>>

(***************************************************************************)
(* update_gui_loop: takes one event off the queue; an 'rfid_operation'     *)
(* goes to add_operation_to_log, which appends a row to the CSV file (a    *)
(* failed write is reported and the row is dropped).                       *)
(***************************************************************************)
AddOperationToLog(operation_data) ==
    \/ csv_log' = Append(csv_log, operation_data)
    \/ UNCHANGED csv_log

UpdateGui ==
    /\ ~exited
    /\ operations_queue # <<>>
    /\ operations_queue' = Tail(operations_queue)
    /\ IF Head(operations_queue).kind = "rfid_operation"
       THEN AddOperationToLog(Head(operations_queue).data)
       ELSE UNCHANGED csv_log
    /\ UNCHANGED <<clients, device_stats, acked, acceptVars, sessionVars, allocVars>>

(***************************************************************************)
(* The server, with the identifier state as load_state leaves it when      *)
(* gui_state.json is absent.                                               *)
(*   Spec:        the server while the operator leaves it running;         *)
(*   SpecRestart: the same with "Restart Server" confirmed by the operator *)
(*                (fewer device frames, to keep the run small).            *)
(***************************************************************************)
\* the block 8 content that goes with a frame: only RFID_DETECTED presents a tag
TagsFor(message) == IF message.command = "RFID_DETECTED" THEN TagBlock8Values ELSE {""}

\* the lines the devices send in the runs with a restart
RestartFrames ==
    { Frame("READER_WRITER_READY", <<>>),
      Frame("RFID_LOG", <<Field("UID", "04A1"), Field("ACTION", "WRITE"),
                          Field("BLOCK8", "00000007"), Field("BLOCK9", "WAREHOUSE_IN"),
                          Field("SEQ", "1")>>),
      Frame("STATUS", <<>>) }

\* a device sends on connection s and recv() returns one of the given reads
DeviceSends(s, reads, bound) ==
    /\ frames < bound
    /\ \E read \in reads :
          LET message == Decode(read.lines)
          IN  /\ \E block8 \in TagsFor(message) : Receive(s, message, block8)
              /\ nlines' = [nlines EXCEPT ![s] = read.newlines]

\* on_closing: the operator closes the window; root.destroy() ends mainloop()
\* and with it the process and its daemon threads (every other action is
\* guarded by ~exited)
OnClosing ==
    /\ ~exited
    /\ SaveState \/ SaveStateError
    /\ running' = FALSE
    /\ closed_sockets' = IF server_socket # 0 THEN closed_sockets \cup {server_socket}
                         ELSE closed_sockets
    /\ exited' = TRUE
    /\ UNCHANGED <<server_socket, lpc, lsock, restart_pending, restarts>>
    /\ UNCHANGED <<next_id, used_ids, apc, current_id, tmp, callPre, calls, persisted,
                   reloads, returned>>
    /\ UNCHANGED <<sharedVars, sessionVars>>

Init ==
    /\ next_id = 1
    /\ used_ids = {}
    /\ saved = Snapshot(1, {})
    /\ InitCallers
    /\ InitServer

ServerStep ==
    \/ \E k \in Servers : RunServerListen(k)
    \/ \E k \in Servers : RunServerBindError(k)
    \/ \E k \in Servers : AcceptLoopTest(k)
    \/ \E k \in Servers, s \in Sessions, ip \in IPs : Accept(k, s, ip)
    \/ \E s \in Sessions : Register(s)
    \/ \E s \in Sessions : LoopTest(s)
    \/ \E s \in Sessions : PeerClosed(s)
    \/ \E s \in Sessions : TransportError(s)
    \/ \E s \in Sessions : Dispatch(s)
    \/ \E s \in Sessions : Teardown(s)
    \/ UpdateGui

Next ==
    \/ ServerStep
    \/ \E s \in Sessions : DeviceSends(s, WholeReads(DeviceFrames) \cup SplitReads, MaxFrames)

NextRestart ==
    \/ ServerStep
    \/ \E s \in Sessions : DeviceSends(s, WholeReads(RestartFrames), MaxRestartFrames)
    \/ RestartServer
    \/ \E k \in Servers : RestartServerDelayed(k)
    \/ \E k \in Servers : AcceptError(k)
    \/ OnClosing

\* the RFID_LOG frames of the runs that follow the counters
StatFrames ==
    { Frame("RFID_LOG", <<Field("UID", "04A1"), Field("BLOCK9", "WAREHOUSE_IN")>>),
      Frame("RFID_LOG", <<Field("UID", "04A1"), Field("BLOCK9", "X_WAREHOUSE_OUT")>>),
      Frame("RFID_LOG", <<Field("UID", "04B2"), Field("ACTION", "MOVE"),
                          Field("BLOCK9", "SHELF")>>) }

\* the server while devices that stay connected send RFID_LOG frames, the
\* RFID_LOG branch taken statement by statement
NextStats ==
    \/ \E k \in Servers : RunServerListen(k)
    \/ \E k \in Servers : AcceptLoopTest(k)
    \/ \E k \in Servers, s \in Sessions, ip \in IPs : Accept(k, s, ip)
    \/ \E s \in Sessions : Register(s)
    \/ \E s \in Sessions : LoopTest(s)
    \/ \E s \in Sessions : DeviceSends(s, WholeReads(StatFrames), MaxFrames)
    \/ \E s \in Sessions : LogCountLoad(s)
    \/ \E s \in Sessions : LogCountStore(s)
    \/ \E s \in Sessions : LogTotalLoad(s)
    \/ \E s \in Sessions : LogTotalStore(s)
    \/ \E s \in Sessions : LogRecord(s)
    \/ UpdateGui

Spec == Init /\ [][Next]_vars

SpecStats == Init /\ [][NextStats]_vars

SpecRestart == Init /\ [][NextRestart]_vars

(***************************************************************************)
(* Properties of the identifier allocator.                                 *)
(***************************************************************************)
Returns == 1..Len(returned)

\* C1: under sequential calls, for every loaded next_id and used_ids (gaps
\* included), no two calls return the same identifier, no call returns an
\* identifier that was in used_ids when it was entered, and a call entered with
\* used_ids = {1,2,4} and next_id = 1 returns "00000003".
C1_SequentialAllocationsDistinct ==
    /\ \A i, j \in Returns : i # j => returned[i].id # returned[j].id
    /\ \A i \in Returns : \A u \in returned[i].pre.used_ids : returned[i].id # FormatId(u)
    /\ \A i \in Returns :
          returned[i].pre = [next_id |-> 1, used_ids |-> {1, 2, 4}]
              => returned[i].id = <<0, 0, 0, 0, 0, 0, 0, 3>>

\* C1 witness: the first call was entered with used_ids = {1,2,4}, next_id = 1
\* and returned "00000003", and two more calls have returned since.
C1_Witness ==
    /\ Len(returned) >= 3
    /\ returned[1].pre = [next_id |-> 1, used_ids |-> {1, 2, 4}]
    /\ returned[1].id = <<0, 0, 0, 0, 0, 0, 0, 3>>
    /\ returned[2].id = <<0, 0, 0, 0, 0, 0, 0, 5>>

\* C2: with callers on several threads, no two calls hold the same candidate
\* in current_id at the same time, and no two calls return the same identifier.
C2_ConcurrentAllocationsDistinct ==
    /\ \A t, u \in Callers :
          (t # u /\ current_id[t] # 0 /\ current_id[u] # 0) => current_id[t] # current_id[u]
    /\ \A i, j \in Returns : i # j => returned[i].id # returned[j].id

\* C3: in every step next_id does not decrease and used_ids loses no element,
\* and used_ids holds every identifier that a call has returned.
C3_IdentifierStateMonotone ==
    [][/\ next_id' >= next_id
       /\ used_ids \subseteq used_ids'
       /\ \A i \in 1..Len(returned') : \E u \in used_ids' : returned'[i].id = FormatId(u)]_vars

(***************************************************************************)
(* Properties of the dispatcher and of the sessions.                       *)
(***************************************************************************)
\* the message has a part that starts with "UID:"
HasUid(message) == \E i \in 1..Len(message.fields) : message.fields[i].key = "UID"

\* the reply tokens of the protocol; READ_BLOCK and WRITE_BLOCK lines are not among them
ReplyTokens ==
    {"ACK_READER_WRITER_READY", "ACK_WRITE_SUCCESS", "ACK_WRITE_PARTIAL", "ACK_LOGGED",
     "HEARTBEAT_ACK", "ERROR_NO_UID", "ERROR_UNKNOWN_COMMAND", "ERROR_PROCESSING"}

\* the command tokens the protocol names
ProtocolCommands ==
    {"READER_WRITER_READY", "RFID_DETECTED", "RFID_LOG", "HEARTBEAT",
     "WRITE_SUCCESS", "WRITE_FAILED", "READ_SUCCESS"}

\* the frame msg[s] has been dispatched and its reply has been sent
Answered(s) == msg[s] # NoFrame /\ sent[s] # <<>>

\* the WRITE_BLOCK line of the block 9 write of a tag-detection cycle
WriteBlock9Line == "WRITE_BLOCK|BLOCK:9|DATA:WAREHOUSE_IN"

\* number of occurrences of line in the sequence lines
RECURSIVE Count(_, _)
Count(lines, line) ==
    IF lines = <<>> THEN 0
    ELSE (IF Head(lines) = line THEN 1 ELSE 0) + Count(Tail(lines), line)

\* thread s is inside its receive loop
Live(s) ==
    spc[s] \in {"loop", "recv", "dispatch", "count_store", "total_load", "total_store", "record"}

\* C4: an RFID_DETECTED frame that carries a UID is answered with
\* ACK_WRITE_SUCCESS or ACK_WRITE_PARTIAL, never with an error token.
C4_DetectedIsAcknowledged ==
    \A s \in Sessions :
        (Answered(s) /\ msg[s].command = "RFID_DETECTED" /\ HasUid(msg[s]))
            => sent[s][Len(sent[s])] \in {"ACK_WRITE_SUCCESS", "ACK_WRITE_PARTIAL"}

\* C5: when an RFID_DETECTED frame with a UID has been answered and block 8 of
\* the tag holds a non-empty value other than EMPTY, the allocator was not
\* called, every line sent for the frame is a reply token, the READ_BLOCK of
\* block 8 or the WRITE_BLOCK of block 9 (no WRITE_BLOCK of block 8), and the
\* cycle emitted an operation record whose block 8 value is the tag's value.
C5_ExistingIdentifierKept ==
    \A s \in Sessions :
        (Answered(s) /\ msg[s].command = "RFID_DETECTED" /\ HasUid(msg[s])
                     /\ tag8[s] \notin {"", "EMPTY"})
            => /\ calls = 0
               /\ \A i \in 1..Len(sent[s]) :
                     sent[s][i] \in ReplyTokens \cup {"READ_BLOCK|BLOCK:8", WriteBlock9Line}
               /\ \E i \in 1..Len(emitted[s]) :
                     /\ emitted[s][i].kind = "rfid_operation"
                     /\ emitted[s][i].data.block8 = tag8[s]

\* C6: the block 9 write of every answered tag-detection cycle sent its
\* WRITE_BLOCK line at least once and at most 3 times.
C6_WriteBlockBoundedRetry ==
    \A s \in Sessions :
        (Answered(s) /\ msg[s].command = "RFID_DETECTED" /\ HasUid(msg[s]))
            => Count(sent[s], WriteBlock9Line) \in 1..3

\* C7: an RFID_DETECTED frame without a UID part is answered with
\* ERROR_NO_UID and nothing else is sent for it, and no allocation is made.
C7_DetectedWithoutUid ==
    \A s \in Sessions :
        (Answered(s) /\ msg[s].command = "RFID_DETECTED" /\ ~HasUid(msg[s]))
            => sent[s] = <<"ERROR_NO_UID">> /\ calls = 0

\* C8: the step that dispatches a frame whose command token is not a command
\* of the protocol leaves next_id, used_ids, device_stats, the operations
\* queue and the CSV log unchanged, and the reply it sends (when the socket
\* takes it) is ERROR_UNKNOWN_COMMAND and nothing else.
C8_UnknownCommandRejected ==
    [][\A s \in Sessions :
          (spc[s] = "dispatch" /\ spc'[s] # "dispatch"
              /\ msg[s].command \notin ProtocolCommands)
          => /\ UNCHANGED <<next_id, used_ids, device_stats, operations_queue, csv_log>>
             /\ emitted'[s] = <<>>
             /\ (spc'[s] = "loop" => sent'[s] = <<"ERROR_UNKNOWN_COMMAND">>)]_vars

\* C8 witness: a frame with an unknown command has been answered on a
\* connection whose address already has one logged operation counted, with that
\* operation's record still on the queue.
C8_Witness ==
    \E s \in Sessions :
        /\ Answered(s)
        /\ msg[s].command = "STATUS"
        /\ sent[s] = <<"ERROR_UNKNOWN_COMMAND">>
        /\ device_stats[addr[s]].total = 1
        /\ \E i \in 1..Len(operations_queue) : operations_queue[i].kind = "rfid_operation"

\* C9: no session is ended by an exception raised while a received message
\* is handled.
C9_ExceptionNeverEndsSession ==
    \A s \in Sessions : ended_by[s] # "KeyError"

\* C10: the teardown of one session leaves the clients record of every other
\* live session in place and unchanged.
C10_TeardownTouchesOwnRecordOnly ==
    [][\A s, u \in Sessions :
          (s # u /\ spc[s] = "finally" /\ spc'[s] = "done" /\ Live(u)
              /\ addr[u] \in DOMAIN clients /\ clients[addr[u]].socket = u)
          => /\ addr[u] \in DOMAIN clients'
             /\ clients'[addr[u]] = clients[addr[u]]]_vars

\* C11: when the program has ended, the record of every RFID_LOG frame that
\* was answered with ACK_LOGGED is a row of the CSV log.
C11_AcknowledgedLogReachesCsv ==
    exited =>
        \A s \in Sessions :
            (Answered(s) /\ sent[s] = <<"ACK_LOGGED">>)
                => \E i \in 1..Len(csv_log) : csv_log[i] = emitted[s][1].data

\* every save_state call of the calls that have returned wrote the file
AllPersisted == \A i \in Returns : returned[i].persisted = "ok"

\* C12: while every save_state call has succeeded, starting the program again
\* from gui_state.json leaves next_id and used_ids as they were in memory, and
\* no two calls, before or after the reload, have returned the same identifier.
C12_ReloadContinuesSequence ==
    [][/\ (reloads' = reloads + 1 /\ AllPersisted)
           => next_id' = next_id /\ used_ids' = used_ids
       /\ AllPersisted'
           => \A i, j \in 1..Len(returned') : i # j => returned'[i].id # returned'[j].id]_vars

\* C12 witness: calls have returned before and after a reload, every save
\* succeeded, and the seed had a gap (used_ids = {1,2,4}).
C12_Witness ==
    /\ AllPersisted
    /\ \E i, j \in Returns :
          /\ returned[i].reloads = 0
          /\ returned[i].pre = [next_id |-> 1, used_ids |-> {1, 2, 4}]
          /\ returned[j].reloads = 1
          /\ returned[j].id = <<0, 0, 0, 0, 0, 0, 0, 5>>

\* C13: the step that leaves save_state goes on to the return statement
\* whether the file was written or not, with next_id and used_ids as the
\* allocation set them (the identifier reserved, next_id one above it), and
\* the call then returns the reserved identifier.
C13_FailedSaveStillAllocates ==
    [][\A t \in Callers :
          /\ (apc[t] = "save" /\ apc'[t] # "save")
                => /\ apc'[t] = "return"
                   /\ UNCHANGED <<next_id, used_ids, current_id>>
                   /\ current_id[t] \in used_ids
                   /\ next_id = current_id[t] + 1
          /\ (apc[t] = "return" /\ apc'[t] # "return")
                => /\ Len(returned') = Len(returned) + 1
                   /\ returned'[Len(returned')].id = FormatId(current_id[t])
                   /\ UNCHANGED <<next_id, used_ids>>]_vars

\* C13 witness: a call whose save_state failed has returned "00000003", 3 is
\* in used_ids, and the file still holds the older snapshot.
C13_Witness ==
    /\ \E i \in Returns :
          /\ returned[i].persisted = "failed"
          /\ returned[i].id = <<0, 0, 0, 0, 0, 0, 0, 3>>
    /\ 3 \in used_ids
    /\ saved # Snapshot(next_id, used_ids)

\* C14: an answered RFID_LOG frame was answered with ACK_LOGGED and nothing
\* else (no READ_BLOCK, no WRITE_BLOCK), it put exactly one operation record
\* on the queue, whose UID, block 8 and block 9 are the frame's UID, BLOCK8
\* and BLOCK9 values ("" for a missing field), and no identifier was allocated.
C14_LogFrameRecordedVerbatim ==
    \A s \in Sessions :
        (Answered(s) /\ msg[s].command = "RFID_LOG")
            => /\ sent[s] = <<"ACK_LOGGED">>
               /\ Len(emitted[s]) = 1
               /\ emitted[s][1].kind = "rfid_operation"
               /\ emitted[s][1].data.uid = FieldValue(msg[s], "UID")
               /\ emitted[s][1].data.block8 = FieldValue(msg[s], "BLOCK8")
               /\ emitted[s][1].data.block9 = FieldValue(msg[s], "BLOCK9")
               /\ calls = 0

\* C15: nothing is sent for a line whose command token is WRITE_SUCCESS,
\* WRITE_FAILED or READ_SUCCESS.
C15_SubCommandResponsesSuppressed ==
    \A s \in Sessions :
        msg[s].command \in {"WRITE_SUCCESS", "WRITE_FAILED", "READ_SUCCESS"} => sent[s] = <<>>

\* the classification tag of live session s, "" while it has no record
Tag(s) == IF Live(s) /\ addr[s] \in DOMAIN clients THEN clients[addr[s]].type ELSE ""

\* the ACTION values of the frames the devices send
SentActions ==
    {FieldValue(Decode(read.lines), "ACTION") :
        read \in WholeReads(DeviceFrames) \cup SplitReads} \ {""}

C17_OneReplyPerFrame ==
    \A s \in Sessions : Answered(s) => Len(sent[s]) = nlines[s]

\* the record self.clients holds is the one session s stored
HasRecord(s) == addr[s] \in DOMAIN clients /\ clients[addr[s]].socket = s

\* C18: the clients table holds the record of a session while the session is
\* in its receive loop, and holds no record of a session that has ended.
C18_RecordExactlyWhileLive ==
    \A s \in Sessions :
        /\ Live(s) => HasRecord(s)
        /\ spc[s] = "done" => ~HasRecord(s)

\* the accept loop of server thread k is in accept() on an open socket
Accepting(k) == lpc[k] = "accept" /\ lsock[k] \notin closed_sockets

\* C19: at most one accept loop is in accept() on an open socket, and that
\* socket is the one the loop's own server start opened.
C19_OneAcceptLoop ==
    /\ \A k \in Servers : Accepting(k) => lsock[k] = k
    /\ \A j, k \in Servers : (Accepting(j) /\ Accepting(k)) => j = k

\* no thread is inside the RFID_LOG branch for address ip
Settled(ip) ==
    \A s \in Sessions :
        addr[s] = ip => spc[s] \notin {"dispatch", "count_store", "total_load", "total_store", "record"}

\* C20: while no thread is inside the RFID_LOG branch for an address, the
\* counters of the address satisfy total >= in_count + out_count and total is
\* the number of RFID_LOG frames of the address answered with ACK_LOGGED.
C20_CountersMatchAcknowledged ==
    \A ip \in IPs :
        Settled(ip)
            => /\ device_stats[ip].total >= device_stats[ip].in_count + device_stats[ip].out_count
               /\ device_stats[ip].total = acked[ip]

====
